---- MODULE Spec2Model ----
(***************************************************************************)
(* TActionThread (tactionthread.cpp): the per-connection worker of the     *)
(* thread-based application server.  Each worker is one thread; the        *)
(* workers share the atomic threadCounter and the memoized                 *)
(* keepAliveTimeout.  The peer of each connection, the clock and the       *)
(* application dispatcher are the environment.                             *)
(***************************************************************************)
EXTENDS Integers, Sequences, FiniteSets, TLC

\* ---------------------------------------------------------------- bounds
NumWorkers == 2      \* worker objects the acceptor creates
MaxBatch == 2        \* Request Units one read() may return
MaxSends == 2        \* batches the peers send altogether
MaxTimeout == 1      \* largest configured HttpKeepAliveTimeout
MaxMsec == 1         \* largest msec given to waitForAllDone, in sleeps of 5 ms

Workers == 1..NumWorkers
ConfigValues == (0 - 1)..MaxTimeout
MaxThreadsValues == (0 - 1)..NumWorkers

\* Tf::InternalServerError
InternalServerError == 500
\* status codes a ClientErrorException may carry
ClientStatusCodes == {400, 404}

\* ---------------------------------------------------------- byte arrays
\* QByteArray values as sequences of characters.
B_empty == << >>
B_keepalive == <<"k","e","e","p","-","a","l","i","v","e">>
B_Upgrade == <<"U","p","g","r","a","d","e">>
B_upgrade == <<"u","p","g","r","a","d","e">>
B_ka_Upgrade == <<"k","e","e","p","-","a","l","i","v","e",","," ","U","p","g","r","a","d","e">>
B_websocket == <<"w","e","b","s","o","c","k","e","t">>
B_WebSocket == <<"W","e","b","S","o","c","k","e","t">>
B_h2c == <<"h","2","c">>

\* QByteArray::toLower on one character (the upper-case letters in use)
LowerChar(c) ==
    CASE c = "U" -> "u"
      [] c = "W" -> "w"
      [] c = "S" -> "s"
      [] OTHER -> c

\* QByteArray::toLower
ToLower(s) == [i \in 1..Len(s) |-> LowerChar(s[i])]

\* QByteArray::contains
Contains(s, t) ==
    \E i \in 0..(Len(s) - Len(t)) : SubSeq(s, i + 1, i + Len(t)) = t

\* ------------------------------------------------------------- requests
\* The header of a Request Unit, as far as run() looks at it: the raw
\* Connection and Upgrade headers, and whether TWebSocket::searchEndpoint
\* finds an endpoint for it.
PlainHeader == [connection |-> B_keepalive, upgrade |-> B_empty, endpoint |-> FALSE]
FirstHeaders ==
    { PlainHeader,
      [connection |-> B_empty, upgrade |-> B_websocket, endpoint |-> TRUE],
      [connection |-> B_Upgrade, upgrade |-> B_websocket, endpoint |-> TRUE],
      [connection |-> B_ka_Upgrade, upgrade |-> B_WebSocket, endpoint |-> TRUE],
      [connection |-> B_upgrade, upgrade |-> B_WebSocket, endpoint |-> FALSE],
      [connection |-> B_Upgrade, upgrade |-> B_h2c, endpoint |-> TRUE] }

\* A batch of n pipelined requests whose first header is h; unit i carries
\* its position as id.
Batch(n, h) ==
    [i \in 1..n |-> [id |-> i, header |-> IF i = 1 THEN h ELSE PlainHeader]]
Batches == { Batch(n, h) : n \in 1..MaxBatch, h \in FirstHeaders }

\* ---------------------------------------------------------------- state
VARIABLES
    threadCounter,     \* std::atomic<int> threadCounter
    keepAliveTimeout,  \* int keepAliveTimeout, -1 until resolved
    configured,        \* the HttpKeepAliveTimeout value of the application settings
    configReads,       \* how often the constructors have read it
    toSend,            \* batches the peers may still send
    closed,            \* closed[fd]: calls of tf_close(fd)
    pc,                \* where each worker is
    socketDesc,        \* TActionContext::socketDesc
    maxThreads,        \* _maxThreads
    timeout,           \* the constructor's local timeout
    httpSocket,        \* _httpSocket: "null" or "set"
    ctx,               \* TDatabaseContext::currentDatabaseContext of the thread:
                       \* the worker that is it, or 0 for nullptr
    sock,              \* the THttpSocket object run() works on
    reqs,              \* run()'s local reqs
    idx,               \* position of the range-for over reqs
    exc,               \* the exception thrown by execute()
    decision,          \* the outcome of the tests after the for loop
    handed,            \* the duplicated descriptor given to a TWebSocket, or 0
    dispatched,        \* ids of the units of the current batch given to execute()
    lastWrite,         \* the last response written through writeResponse
    did,               \* what the current run() has done so far, in counts
    hist,              \* what the worker object has done in its lifetime, in counts
    waiter             \* the thread that calls waitForAllDone, and its locals

objVars == << socketDesc, maxThreads, timeout, httpSocket, ctx >>
cfgVars == << keepAliveTimeout, configured, configReads >>
runVars == << sock, reqs, idx, exc, decision, handed, dispatched, lastWrite, did >>
vars == << threadCounter, cfgVars, toSend, closed, pc, objVars, runVars, hist, waiter >>

\* descriptors: worker w is constructed with w (or with 0), setSocketDescriptor
\* gives it w + NumWorkers and w + 2 * NumWorkers, and duplicateSocket(fd)
\* returns fd + 3 * NumWorkers
Fds == 0..(6 * NumWorkers)
CtorFd(w) == w
SetFd(w) == w + NumWorkers
SetFds(w) == { SetFd(w), w + 2 * NumWorkers }
DupFd(fd) == fd + 3 * NumWorkers

NoSock == [state |-> "none", fd |-> 0, idle |-> 0, avail |-> << >>, err |-> "none"]
NoExc == [kind |-> "none", status |-> 0]
\* reason: which way the tests went; count: threadCount() at that moment
NoDecision == [reason |-> "none", count |-> 0]
NoWrite == [status |-> 0, header |-> {}, by |-> "none", result |-> 0]
\* errors: calls of emitError
NoDid == [reads |-> 0, closes |-> 0, aborts |-> 0, drains |-> 0, faultWrites |-> 0,
          after |-> 0, errors |-> 0]
\* failed: binds that failed, and failedFd: the descriptor of the last one
\* given: the positive descriptors given to the worker, and bound: those a
\* successful bind gave to the THttpSocket
NoHist == [entered |-> 0, left |-> 0, deletes |-> 0, cleanups |-> 0, failed |-> 0,
           failedFd |-> 0 - 1, given |-> {}, bound |-> {}]

\* no call of waitForAllDone yet; first: the count seen by the first test,
\* sleeps: calls of Tf::msleep
NoWaiter == [pc |-> "idle", msec |-> 0, cnt |-> 0, elapsed |-> 0, first |-> 0 - 1,
             sleeps |-> 0, result |-> FALSE]

\* the places of run()
Running == {"bind", "read", "inspect", "handshake", "dispatch", "caught", "decide",
            "keepalive", "receive_end", "socket_cleanup", "socket_error"}

Init ==
    /\ threadCounter = 0
    /\ keepAliveTimeout = 0 - 1
    /\ configured \in ConfigValues
    /\ configReads = 0
    /\ toSend = MaxSends
    /\ closed = [f \in Fds |-> 0]
    /\ pc = [w \in Workers |-> "none"]
    /\ socketDesc = [w \in Workers |-> 0]
    /\ maxThreads = [w \in Workers |-> 0]
    /\ timeout = [w \in Workers |-> 0]
    /\ httpSocket = [w \in Workers |-> "null"]
    /\ ctx = [w \in Workers |-> 0]
    /\ sock = [w \in Workers |-> NoSock]
    /\ reqs = [w \in Workers |-> << >>]
    /\ idx = [w \in Workers |-> 0]
    /\ exc = [w \in Workers |-> NoExc]
    /\ decision = [w \in Workers |-> NoDecision]
    /\ handed = [w \in Workers |-> 0]
    /\ dispatched = [w \in Workers |-> << >>]
    /\ lastWrite = [w \in Workers |-> NoWrite]
    /\ did = [w \in Workers |-> NoDid]
    /\ hist = [w \in Workers |-> NoHist]
    /\ waiter = NoWaiter

\* ------------------------------------------------ code-level operators
Max(a, b) == IF a >= b THEN a ELSE b

\* faulty variant: the setting taken as it is
ResolveTimeoutUnclamped(t) == t

\* qMax(timeout, 0) of the constructor
ResolveTimeout(t) == Max(t, 0)

\* faulty variant: a destructor that leaves the counter alone
CounterDtorForgets(n) == n

\* Counter::Counter and Counter::~Counter
CounterCtor(n) == n + 1
CounterDtor(n) == n - 1

\* tf_close(fd)
TfClose(c, fd) == [c EXCEPT ![fd] = @ + 1]

\* a call on the socket object: counted when it comes after the handoff
Touch(d, w) == [d EXCEPT !.after = @ + (IF handed[w] # 0 THEN 1 ELSE 0)]

\* rawHeader("Connection").toLower().contains("upgrade")
IsUpgradeRequest(h) == Contains(ToLower(h.connection), B_upgrade)

\* rawHeader("Upgrade").toLower() == "websocket"
IsWebSocket(h) == ToLower(h.upgrade) = B_websocket

\* handshakeForWebSocket: false iff TWebSocket::searchEndpoint finds nothing
HandshakeForWebSocket(h) == h.endpoint

\* faulty variant: a read that only a disconnect ends
ReadAbortsOnDisconnect(kat, idle, state) == state # "connected"

\* faulty variant: the idle test without the test for a positive timeout
ReadAbortsUnguarded(kat, idle, state) ==
    \/ idle >= kat
    \/ state # "connected"

\* the loop condition of readRequest once canReadRequest() is false: the two
\* breaks
ReadAborts(kat, idle, state) ==
    \/ kat > 0 /\ idle >= kat
    \/ state # "connected"

\* faulty variant: a failed bind that leaves through the drain of the events
AfterBindDrains(ok) == IF ok THEN "read" ELSE "socket_cleanup"

\* run() after _httpSocket->setSocketDescriptor: on failure goto socket_error
AfterBind(ok) == IF ok THEN "read" ELSE "socket_error"

\* run() after readRequest: an empty batch leaves the loop
AfterRead(rs) == IF rs = << >> THEN "receive_end" ELSE "inspect"

\* faulty variant: an Upgrade header other than websocket ends in receive_end
AfterInspectClosing(h) ==
    IF Contains(ToLower(h.connection), B_upgrade)
    THEN IF ToLower(h.upgrade) = B_websocket THEN "handshake" ELSE "receive_end"
    ELSE "dispatch"

\* run(), the WebSocket branch
AfterInspect(h) ==
    IF IsUpgradeRequest(h)
    THEN IF IsWebSocket(h) THEN "handshake" ELSE "socket_cleanup"
    ELSE "dispatch"

\* faulty variants: a handshake whose success, or whose failure, is followed
\* by closeHttpSocket()
AfterHandshakeClosesOnSuccess(ok) == IF ok THEN "receive_end" ELSE "socket_error"
AfterHandshakeClosesOnFailure(ok) == IF ok THEN "socket_cleanup" ELSE "receive_end"

AfterHandshake(ok) == IF ok THEN "socket_cleanup" ELSE "socket_error"

\* the range-for over reqs: the unit after position i, or the end of the loop
AfterExecute(rs, i) == IF i + 1 > Len(rs) THEN "decide" ELSE "dispatch"
NextIdx(i) == i + 1

\* faulty variant: the tests without the one for a timeout of 0
DecisionIgnoresZero(kat, count, maxT) ==
    IF count >= maxT /\ maxT > 0 THEN "max_threads" ELSE "keepalive"

\* faulty variant: the bound compared with > in place of >=
DecisionOffByOne(kat, count, maxT) ==
    IF kat = 0 THEN "no_keepalive"
    ELSE IF count > maxT /\ maxT > 0 THEN "max_threads"
    ELSE "keepalive"

\* faulty variant: the tests without the one for the number of workers
DecisionWithoutBound(kat, count, maxT) ==
    IF kat = 0 THEN "no_keepalive" ELSE "keepalive"

\* run() after the for loop: which of the two breaks is taken, if any
Decision(kat, count, maxT) ==
    IF kat = 0 THEN "no_keepalive"
    ELSE IF count >= maxT /\ maxT > 0 THEN "max_threads"
    ELSE "keepalive"

\* a break leaves the loop for receive_end, else the keep-alive wait begins
AfterDispatch(d) == IF d = "keepalive" THEN "keepalive" ELSE "receive_end"

\* faulty variant: the idle time compared with > in place of >=
KeepAliveEndsLate(kat, idle, state) ==
    \/ state # "connected"
    \/ idle > kat

\* the keep-alive wait loop after waitForReadyRead(5) returned false
KeepAliveEnds(kat, idle, state) ==
    \/ state # "connected"
    \/ idle >= kat

\* faulty variants: a handler that answers every fault with 500, and handlers
\* inside the loop, from which the tests after the loop are reached
CatchStatusAlways500(e) == InternalServerError
AfterCatchDecides == "decide"

\* the catch handlers: the status of the response, and where control goes
CatchStatus(e) == IF e.kind = "client" THEN e.status ELSE InternalServerError
AfterCatch == "receive_end"

\* a header is the set of its fields, each a pair of name and value
KeepAliveField == << "Connection", "Keep-Alive" >>
CloseField == << "Connection", "close" >>
ContentTypeField == << "Content-Type", "text/html" >>

\* THttpHeader::setRawHeader: the field of that name is replaced
SetRawHeader(header, name, value) ==
    { f \in header : f[1] # name } \cup { << name, value >> }

\* faulty variant: the field set whatever the timeout
SetKeepAliveAlways(header, kat) == SetRawHeader(header, "Connection", "Keep-Alive")

\* writeResponse: header.setRawHeader("Connection", "Keep-Alive") if the
\* timeout is positive
SetKeepAlive(header, kat) ==
    IF kat > 0 THEN SetRawHeader(header, "Connection", "Keep-Alive") ELSE header

\* the response writeResponse hands to _httpSocket->write, and its result
WriteResponse(status, header, by, result) ==
    [status |-> status, header |-> SetKeepAlive(header, keepAliveTimeout),
     by |-> by, result |-> result]

\* the header of a response of the dispatcher, which may ask for the close
\* itself, and the THttpResponseHeader the catch handlers construct
AppHeader == { ContentTypeField }
AppHeaders == { AppHeader, AppHeader \cup { CloseField } }
EmptyHeader == {}

\* faulty variant: a loop that walks the batch backwards
UnitAtReversed(rs, i) == rs[Len(rs) + 1 - i]

\* the request the range-for is at
UnitAt(rs, i) == rs[i]

\* faulty variant: the cleanup block without socketDesc = 0
SocketDescKept(sd) == sd

\* TActionContext::socketDesc after the cleanup block, whatever it was
SocketDescAfterRun(sd) == 0

\* faulty variant: the cleanup block without _httpSocket = nullptr
HttpSocketKept == "set"

\* _httpSocket after the cleanup block
HttpSocketAfterRun == "null"

\* results of THttpSocket::write
WriteResults == {1, 0 - 1}
\* what a call of TActionContext::execute may do
Outcomes ==
    [kind : {"ok"}, status : {200}, result : WriteResults, header : AppHeaders]
      \cup [kind : {"client"}, status : ClientStatusCodes, result : {0},
            header : {EmptyHeader}]
      \cup [kind : {"std"}, status : {0}, result : {0}, header : {EmptyHeader}]

\* ------------------------------------------------------------- lifetime
\* TActionThread::TActionThread, up to the read of the setting
Construct(w, sd, mt) ==
    /\ pc[w] = "none"
    /\ socketDesc' = [socketDesc EXCEPT ![w] = sd]
    /\ maxThreads' = [maxThreads EXCEPT ![w] = mt]
    /\ IF keepAliveTimeout < 0
       THEN /\ timeout' = [timeout EXCEPT ![w] = configured]
            /\ configReads' = configReads + 1
            /\ pc' = [pc EXCEPT ![w] = "ctor"]
       ELSE /\ pc' = [pc EXCEPT ![w] = "ready"]
            /\ UNCHANGED << timeout, configReads >>
    /\ hist' = IF sd > 0 THEN [hist EXCEPT ![w].given = @ \cup {sd}] ELSE hist
    /\ UNCHANGED << waiter, threadCounter, keepAliveTimeout, configured, toSend, closed,
                    httpSocket, ctx, runVars >>

\* the constructor's assignment keepAliveTimeout = qMax(timeout, 0)
CtorResolve(w) ==
    /\ pc[w] = "ctor"
    /\ keepAliveTimeout' = ResolveTimeout(timeout[w])
    /\ timeout' = [timeout EXCEPT ![w] = 0]
    /\ pc' = [pc EXCEPT ![w] = "ready"]
    /\ UNCHANGED << waiter, threadCounter, configured, configReads, toSend, closed,
                    socketDesc, maxThreads, httpSocket, ctx, runVars, hist >>

\* TActionThread::setSocketDescriptor with a descriptor not given before, on
\* a worker whose thread has not been started or has finished
SetSocketDescriptor(w, fd) ==
    /\ pc[w] \in {"ready", "done"}
    /\ fd \notin hist[w].given
    /\ closed' = IF socketDesc[w] > 0 THEN TfClose(closed, socketDesc[w]) ELSE closed
    /\ socketDesc' = [socketDesc EXCEPT ![w] = fd]
    /\ hist' = [hist EXCEPT ![w].given = @ \cup {fd}]
    /\ UNCHANGED << waiter, threadCounter, cfgVars, toSend, pc, maxThreads, timeout,
                    httpSocket, ctx, runVars >>

\* TActionThread::~TActionThread, of a worker that is not running
Destroy(w) ==
    /\ pc[w] \in {"ready", "done"}
    /\ hist' = IF httpSocket[w] # "null"
               THEN [hist EXCEPT ![w].deletes = @ + 1]
               ELSE hist
    /\ closed' = IF socketDesc[w] > 0 THEN TfClose(closed, socketDesc[w]) ELSE closed
    /\ pc' = [pc EXCEPT ![w] = "destroyed"]
    /\ UNCHANGED << waiter, threadCounter, cfgVars, toSend, objVars, runVars >>

\* ------------------------------------------------------------------ run
\* run(): Counter counter(threadCounter); _httpSocket = new THttpSocket()
RunStart(w) ==
    /\ pc[w] = "ready"
    /\ threadCounter' = CounterCtor(threadCounter)
    /\ httpSocket' = [httpSocket EXCEPT ![w] = "set"]
    /\ sock' = [sock EXCEPT ![w] = [NoSock EXCEPT !.state = "unconnected"]]
    /\ hist' = [hist EXCEPT ![w].entered = @ + 1]
    /\ pc' = [pc EXCEPT ![w] = "bind"]
    /\ UNCHANGED << waiter, cfgVars, toSend, closed, socketDesc, maxThreads, timeout, ctx,
                    reqs, idx, exc, decision, handed, dispatched, lastWrite, did >>

\* _httpSocket->setSocketDescriptor(socketDesc) and what follows it
Bind(w, ok) ==
    /\ pc[w] = "bind"
    /\ ok => socketDesc[w] > 0
    /\ IF ok
       THEN /\ sock' = [sock EXCEPT ![w].state = "connected", ![w].fd = socketDesc[w]]
            /\ socketDesc' = [socketDesc EXCEPT ![w] = 0]
            /\ ctx' = [ctx EXCEPT ![w] = w]
            /\ hist' = [hist EXCEPT ![w].bound = @ \cup {socketDesc[w]}]
            /\ UNCHANGED << closed, did >>
       ELSE /\ did' = [did EXCEPT ![w].errors = @ + 1]
            /\ closed' = TfClose(closed, socketDesc[w])
            /\ hist' = [hist EXCEPT ![w].failed = @ + 1, ![w].failedFd = socketDesc[w]]
            /\ UNCHANGED << sock, socketDesc, ctx >>
    /\ pc' = [pc EXCEPT ![w] = AfterBind(ok)]
    /\ UNCHANGED << waiter, threadCounter, cfgVars, toSend, maxThreads, timeout, httpSocket,
                    reqs, idx, exc, decision, handed, dispatched, lastWrite >>

\* readRequest leaves its loop without a request: socket->abort(), empty batch
ReadAbort(w) ==
    /\ pc[w] = "read"
    /\ sock[w].avail = << >>
    /\ ReadAborts(keepAliveTimeout, sock[w].idle, sock[w].state)
    /\ sock' = [sock EXCEPT ![w].state = "unconnected"]
    /\ did' = [did EXCEPT ![w] = Touch([@ EXCEPT !.aborts = @ + 1], w)]
    /\ reqs' = [reqs EXCEPT ![w] = << >>]
    /\ dispatched' = [dispatched EXCEPT ![w] = << >>]
    /\ decision' = [decision EXCEPT ![w] = NoDecision]
    /\ pc' = [pc EXCEPT ![w] = AfterRead(<< >>)]
    /\ UNCHANGED << waiter, threadCounter, cfgVars, toSend, closed, objVars, idx, exc,
                    handed, lastWrite, hist >>

\* readRequest with canReadRequest(): reqs = socket->read()
ReadBatch(w) ==
    /\ pc[w] = "read"
    /\ sock[w].avail # << >>
    /\ reqs' = [reqs EXCEPT ![w] = sock[w].avail]
    /\ sock' = [sock EXCEPT ![w].avail = << >>, ![w].idle = 0]
    /\ did' = [did EXCEPT ![w] = Touch([@ EXCEPT !.reads = @ + 1], w)]
    /\ dispatched' = [dispatched EXCEPT ![w] = << >>]
    /\ decision' = [decision EXCEPT ![w] = NoDecision]
    /\ pc' = [pc EXCEPT ![w] = AfterRead(sock[w].avail)]
    /\ UNCHANGED << waiter, threadCounter, cfgVars, toSend, closed, objVars, idx, exc,
                    handed, lastWrite, hist >>

\* the look at the first request's Connection and Upgrade headers
Inspect(w) ==
    /\ pc[w] = "inspect"
    /\ pc' = [pc EXCEPT ![w] = AfterInspect(reqs[w][1].header)]
    /\ idx' = [idx EXCEPT ![w] = 1]
    /\ UNCHANGED << waiter, threadCounter, cfgVars, toSend, closed, objVars, sock, reqs, exc,
                    decision, handed, dispatched, lastWrite, did, hist >>

\* handshakeForWebSocket(reqs[0].header())
Handshake(w) ==
    /\ pc[w] = "handshake"
    /\ LET ok == HandshakeForWebSocket(reqs[w][1].header)
       IN /\ handed' = [handed EXCEPT ![w] = IF ok THEN DupFd(sock[w].fd) ELSE 0]
          /\ pc' = [pc EXCEPT ![w] = AfterHandshake(ok)]
    /\ UNCHANGED << waiter, threadCounter, cfgVars, toSend, closed, objVars, sock, reqs, idx,
                    exc, decision, dispatched, lastWrite, did, hist >>

\* one turn of the for loop: TActionContext::execute(req, socketId), which
\* writes its response through writeResponse or throws
Execute(w, o) ==
    /\ pc[w] = "dispatch"
    /\ dispatched' = [dispatched EXCEPT ![w] = Append(@, UnitAt(reqs[w], idx[w]).id)]
    /\ IF o.kind = "ok"
       THEN /\ lastWrite' = [lastWrite EXCEPT
                                ![w] = WriteResponse(o.status, o.header, "dispatcher", o.result)]
            /\ sock' = [sock EXCEPT ![w].idle = 0]
            /\ did' = [did EXCEPT ![w] = Touch(@, w)]
            /\ idx' = [idx EXCEPT ![w] = NextIdx(@)]
            /\ pc' = [pc EXCEPT ![w] = AfterExecute(reqs[w], idx[w])]
            /\ UNCHANGED exc
       ELSE /\ exc' = [exc EXCEPT ![w] = [kind |-> o.kind, status |-> o.status]]
            /\ pc' = [pc EXCEPT ![w] = "caught"]
            /\ UNCHANGED << lastWrite, sock, idx, did >>
    /\ UNCHANGED << waiter, threadCounter, cfgVars, toSend, closed, objVars, reqs, decision,
                    handed, hist >>

\* the catch handlers: writeResponse(status, header) with an empty header
Catch(w, r) ==
    /\ pc[w] = "caught"
    /\ lastWrite' = [lastWrite EXCEPT
                        ![w] = WriteResponse(CatchStatus(exc[w]), EmptyHeader, "worker", r)]
    /\ sock' = [sock EXCEPT ![w].idle = 0]
    /\ did' = [did EXCEPT ![w] = Touch([@ EXCEPT !.faultWrites = @ + 1], w)]
    /\ pc' = [pc EXCEPT ![w] = AfterCatch]
    /\ UNCHANGED << waiter, threadCounter, cfgVars, toSend, closed, objVars, reqs, idx, exc,
                    decision, handed, dispatched, hist >>

\* the two tests after the for loop
Decide(w) ==
    /\ pc[w] = "decide"
    /\ LET d == Decision(keepAliveTimeout, threadCounter, maxThreads[w])
       IN /\ pc' = [pc EXCEPT ![w] = AfterDispatch(d)]
          /\ decision' = [decision EXCEPT
                             ![w] = [reason |-> d, count |-> threadCounter]]
    /\ UNCHANGED << waiter, threadCounter, cfgVars, toSend, closed, objVars, sock, reqs, idx,
                    exc, handed, dispatched, lastWrite, did, hist >>

\* waitForReadyRead(5) returns true: back to readRequest
KeepAliveReady(w) ==
    /\ pc[w] = "keepalive"
    /\ sock[w].avail # << >>
    /\ pc' = [pc EXCEPT ![w] = "read"]
    /\ UNCHANGED << waiter, threadCounter, cfgVars, toSend, closed, objVars, runVars, hist >>

\* waitForReadyRead(5) returns false and one of the two goto receive_end is taken
KeepAliveEnd(w) ==
    /\ pc[w] = "keepalive"
    /\ sock[w].avail = << >>
    /\ KeepAliveEnds(keepAliveTimeout, sock[w].idle, sock[w].state)
    /\ pc' = [pc EXCEPT ![w] = "receive_end"]
    /\ UNCHANGED << waiter, threadCounter, cfgVars, toSend, closed, objVars, runVars, hist >>

\* receive_end: closeHttpSocket()
ReceiveEnd(w) ==
    /\ pc[w] = "receive_end"
    /\ sock' = [sock EXCEPT ![w].state = "unconnected"]
    /\ did' = [did EXCEPT ![w] = Touch([@ EXCEPT !.closes = @ + 1], w)]
    /\ pc' = [pc EXCEPT ![w] = "socket_cleanup"]
    /\ UNCHANGED << waiter, threadCounter, cfgVars, toSend, closed, objVars, reqs, idx, exc,
                    decision, handed, dispatched, lastWrite, hist >>

\* socket_cleanup: while (eventLoop.processEvents()) {}
SocketCleanup(w) ==
    /\ pc[w] = "socket_cleanup"
    /\ did' = [did EXCEPT ![w].drains = @ + 1]
    /\ pc' = [pc EXCEPT ![w] = "socket_error"]
    /\ UNCHANGED << waiter, threadCounter, cfgVars, toSend, closed, objVars, sock, reqs, idx,
                    exc, decision, handed, dispatched, lastWrite, hist >>

\* socket_error: the cleanup block, then the return: ~Counter, and the locals
\* of run() and the socket object given to deleteLater() are gone
SocketError(w) ==
    /\ pc[w] = "socket_error"
    /\ socketDesc' = [socketDesc EXCEPT ![w] = SocketDescAfterRun(@)]
    /\ ctx' = [ctx EXCEPT ![w] = 0]
    /\ httpSocket' = [httpSocket EXCEPT ![w] = HttpSocketAfterRun]
    /\ hist' = [hist EXCEPT ![w].deletes = @ + 1, ![w].cleanups = @ + 1,
                           ![w].left = @ + 1]
    /\ threadCounter' = CounterDtor(threadCounter)
    /\ sock' = [sock EXCEPT ![w] = NoSock]
    /\ reqs' = [reqs EXCEPT ![w] = << >>]
    /\ idx' = [idx EXCEPT ![w] = 0]
    /\ exc' = [exc EXCEPT ![w] = NoExc]
    /\ decision' = [decision EXCEPT ![w] = NoDecision]
    /\ handed' = [handed EXCEPT ![w] = 0]
    /\ dispatched' = [dispatched EXCEPT ![w] = << >>]
    /\ lastWrite' = [lastWrite EXCEPT ![w] = NoWrite]
    /\ did' = [did EXCEPT ![w] = NoDid]
    /\ pc' = [pc EXCEPT ![w] = "done"]
    /\ UNCHANGED << waiter, cfgVars, toSend, closed, maxThreads, timeout >>

\* ---------------------------------------------------------- environment
\* The socket object lives in the worker's thread: it takes in data, notices
\* a disconnect and is asked for idleTime() only while the worker waits on it,
\* in waitForReadyRead of readRequest or of the keep-alive loop.
Waiting == {"read", "keepalive"}

\* the peer sends a batch of complete requests
PeerSend(w, b) ==
    /\ pc[w] \in Waiting
    /\ sock[w].state = "connected"
    /\ sock[w].avail = << >>
    /\ toSend > 0
    /\ toSend' = toSend - 1
    /\ sock' = [sock EXCEPT ![w].avail = b]
    /\ UNCHANGED << waiter, threadCounter, cfgVars, closed, pc, objVars, reqs, idx, exc,
                    decision, handed, dispatched, lastWrite, did, hist >>

\* the connection goes down: the peer closed it, or a socket error
PeerClose(w, e) ==
    /\ pc[w] \in Waiting
    /\ sock[w].state = "connected"
    /\ sock' = [sock EXCEPT ![w].state = "unconnected", ![w].err = e]
    /\ UNCHANGED << waiter, threadCounter, cfgVars, toSend, closed, pc, objVars, reqs, idx,
                    exc, decision, handed, dispatched, lastWrite, did, hist >>

\* a second passes: idleTime() of every socket being waited on grows (it is
\* only compared with keepAliveTimeout, so it is not counted beyond that)
Idling(w) ==
    /\ pc[w] \in Waiting
    /\ sock[w].state = "connected"
    /\ sock[w].idle < keepAliveTimeout

Tick ==
    /\ \E w \in Workers : Idling(w)
    /\ sock' = [w \in Workers |->
                  IF Idling(w) THEN [sock[w] EXCEPT !.idle = @ + 1] ELSE sock[w]]
    /\ UNCHANGED << waiter, threadCounter, cfgVars, toSend, closed, pc, objVars, reqs, idx,
                    exc, decision, handed, dispatched, lastWrite, did, hist >>

SocketErrors == {"RemoteHostClosedError", "NetworkError"}

\* One connection in full: the acceptor creates worker 1 alone, its peer may
\* send any batch and the dispatcher may end in any way.
Next ==
    \/ \E sd \in {0, CtorFd(1)}, mt \in MaxThreadsValues : Construct(1, sd, mt)
    \/ CtorResolve(1)
    \/ \E fd \in SetFds(1) : SetSocketDescriptor(1, fd)
    \/ Destroy(1)
    \/ RunStart(1)
    \/ \E ok \in BOOLEAN : Bind(1, ok)
    \/ ReadAbort(1)
    \/ ReadBatch(1)
    \/ Inspect(1)
    \/ Handshake(1)
    \/ \E o \in Outcomes : Execute(1, o)
    \/ \E r \in WriteResults : Catch(1, r)
    \/ Decide(1)
    \/ KeepAliveReady(1)
    \/ KeepAliveEnd(1)
    \/ ReceiveEnd(1)
    \/ SocketCleanup(1)
    \/ SocketError(1)
    \/ \E b \in Batches : PeerSend(1, b)
    \/ \E e \in SocketErrors : PeerClose(1, e)
    \/ Tick

Spec == Init /\ [][Next]_vars

\* Several workers at once: keep-alive is configured off (0) or on (1), the
\* acceptor creates every worker with the server's one MaxThreads value and a
\* descriptor of its own; each peer sends plain single requests, which the
\* dispatcher answers, and then stays connected and silent, so that a
\* connection ends by the worker's own tests and timeouts.
InitPool == Init /\ configured \in {0, 1}

PoolBatches == { Batch(1, PlainHeader) }
PoolOutcome == [kind |-> "ok", status |-> 200, result |-> 1, header |-> AppHeader]

NextPool ==
    \/ \E w \in Workers, mt \in MaxThreadsValues :
          /\ \A v \in Workers : pc[v] # "none" => maxThreads[v] = mt
          /\ Construct(w, CtorFd(w), mt)
    \/ \E w \in Workers : CtorResolve(w)
    \/ \E w \in Workers : RunStart(w)
    \/ \E w \in Workers, ok \in BOOLEAN : Bind(w, ok)
    \/ \E w \in Workers : ReadAbort(w)
    \/ \E w \in Workers : ReadBatch(w)
    \/ \E w \in Workers : Inspect(w)
    \/ \E w \in Workers : Execute(w, PoolOutcome)
    \/ \E w \in Workers : Decide(w)
    \/ \E w \in Workers : KeepAliveReady(w)
    \/ \E w \in Workers : KeepAliveEnd(w)
    \/ \E w \in Workers : ReceiveEnd(w)
    \/ \E w \in Workers : SocketCleanup(w)
    \/ \E w \in Workers : SocketError(w)
    \/ \E w \in Workers, b \in PoolBatches : PeerSend(w, b)
    \/ Tick

SpecPool == InitPool /\ [][NextPool]_vars

\* Construction in any interleaving: every setting, negative ones included;
\* the workers are constructed, possibly at the same time, started and
\* destroyed, and their peers send nothing, so that each run() ends by the
\* abort of its first read.
NextLife ==
    \/ \E w \in Workers : Construct(w, CtorFd(w), 0)
    \/ \E w \in Workers : CtorResolve(w)
    \/ \E w \in Workers : Destroy(w)
    \/ \E w \in Workers : RunStart(w)
    \/ \E w \in Workers, ok \in BOOLEAN : Bind(w, ok)
    \/ \E w \in Workers : ReadAbort(w)
    \/ \E w \in Workers : ReceiveEnd(w)
    \/ \E w \in Workers : SocketCleanup(w)
    \/ \E w \in Workers : SocketError(w)
    \/ \E w \in Workers, e \in SocketErrors : PeerClose(w, e)
    \/ Tick

SpecLife == Init /\ [][NextLife]_vars

\* ------------------------------------------------------- waitForAllDone
MsecValues == 0..MaxMsec
\* time.elapsed() is only compared with msec: it is not counted beyond this
\* (and neither are the sleeps)
ElapsedCap == MaxMsec + 1
\* an msec that the elapsed time does not exceed, however long the workers take
NoDeadline == ElapsedCap

\* (cnt = threadCount()) > 0
WaitLoops(cnt) == cnt > 0

\* faulty variant: the break taken as soon as msec is reached
WaitBreaksAtOnce(elapsed, msec) == elapsed >= msec

\* time.elapsed() > msec
WaitBreaks(elapsed, msec) == elapsed > msec

\* return cnt == 0
WaitResult(cnt) == cnt = 0

\* the call: QElapsedTimer time; time.start()
WaitCall(ms) ==
    /\ waiter.pc \in {"idle", "returned"}
    /\ waiter' = [NoWaiter EXCEPT !.pc = "load", !.msec = ms]
    /\ UNCHANGED << threadCounter, cfgVars, toSend, closed, pc, objVars, runVars, hist >>

\* the loop condition: the load of the counter, and the return when it is 0
WaitLoad ==
    /\ waiter.pc = "load"
    /\ waiter' = [waiter EXCEPT
                     !.cnt = threadCounter,
                     !.first = IF @ < 0 THEN threadCounter ELSE @,
                     !.pc = IF WaitLoops(threadCounter) THEN "check" ELSE "returned",
                     !.result = IF WaitLoops(threadCounter) THEN @
                                ELSE WaitResult(threadCounter)]
    /\ UNCHANGED << threadCounter, cfgVars, toSend, closed, pc, objVars, runVars, hist >>

\* the test of time.elapsed(), which reads e, and the return after the break
WaitCheck(e) ==
    /\ waiter.pc = "check"
    /\ e >= waiter.elapsed
    /\ waiter' = [waiter EXCEPT
                     !.elapsed = e,
                     !.pc = IF WaitBreaks(e, waiter.msec) THEN "returned" ELSE "sleep",
                     !.result = IF WaitBreaks(e, waiter.msec) THEN WaitResult(waiter.cnt)
                                ELSE @]
    /\ UNCHANGED << threadCounter, cfgVars, toSend, closed, pc, objVars, runVars, hist >>

\* Tf::msleep(5); qApp->processEvents()
WaitSleep ==
    /\ waiter.pc = "sleep"
    /\ waiter' = [waiter EXCEPT
                     !.elapsed = IF @ < ElapsedCap THEN @ + 1 ELSE @,
                     !.sleeps = IF @ < ElapsedCap THEN @ + 1 ELSE @,
                     !.pc = "load"]
    /\ UNCHANGED << threadCounter, cfgVars, toSend, closed, pc, objVars, runVars, hist >>

\* Shutdown: while the workers are constructed, run and end (their peers send
\* nothing and the reads time out), another thread calls waitForAllDone.
InitWait == Init /\ configured = 1

NextWait ==
    \/ \E w \in Workers : Construct(w, CtorFd(w), 0)
    \/ \E w \in Workers : CtorResolve(w)
    \/ \E w \in Workers : RunStart(w)
    \/ \E w \in Workers, ok \in BOOLEAN : Bind(w, ok)
    \/ \E w \in Workers : ReadAbort(w)
    \/ \E w \in Workers : ReceiveEnd(w)
    \/ \E w \in Workers : SocketCleanup(w)
    \/ \E w \in Workers : SocketError(w)
    \/ Tick
    \/ \E ms \in MsecValues : WaitCall(ms)
    \/ WaitLoad
    \/ \E e \in 0..ElapsedCap : WaitCheck(e)
    \/ WaitSleep

SpecWait == InitWait /\ [][NextWait]_vars

\* Scheduling: with keep-alive on, every worker thread that has been started
\* keeps being scheduled, each call of the dispatcher returns or throws, the
\* drains end, the idle time of a silent connection grows, the peers send a
\* bounded number of requests and then stay connected and silent; the thread
\* in waitForAllDone keeps being scheduled too.
InitFair == Init /\ configured \in 1..MaxTimeout

FairOutcomes ==
    { PoolOutcome,
      [kind |-> "client", status |-> 400, result |-> 0, header |-> EmptyHeader],
      [kind |-> "std", status |-> 0, result |-> 0, header |-> EmptyHeader] }

\* the steps of run() once started
RunStep(w) ==
    \/ \E ok \in BOOLEAN : Bind(w, ok)
    \/ ReadAbort(w)
    \/ ReadBatch(w)
    \/ Inspect(w)
    \/ \E o \in FairOutcomes : Execute(w, o)
    \/ Catch(w, 1)
    \/ Decide(w)
    \/ KeepAliveReady(w)
    \/ KeepAliveEnd(w)
    \/ ReceiveEnd(w)
    \/ SocketCleanup(w)
    \/ SocketError(w)

\* the steps of waitForAllDone once called (the time that passes outside its
\* sleeps makes no difference to a call without deadline)
WaitStep ==
    \/ WaitLoad
    \/ WaitCheck(waiter.elapsed)
    \/ WaitSleep

NextFair ==
    \/ \E w \in Workers : Construct(w, CtorFd(w), 0)
    \/ \E w \in Workers : CtorResolve(w)
    \/ \E w \in Workers : RunStart(w)
    \/ \E w \in Workers : RunStep(w)
    \/ \E w \in Workers, b \in PoolBatches : PeerSend(w, b)
    \/ Tick
    \/ WaitCall(NoDeadline)
    \/ WaitStep

Fairness ==
    /\ \A w \in Workers : WF_vars(RunStep(w))
    /\ WF_vars(Tick)
    /\ WF_vars(WaitStep)

SpecFair == InitFair /\ [][NextFair]_vars /\ Fairness

\* ------------------------------------------------------------ properties
Closing == {"receive_end", "socket_cleanup", "socket_error"}
InRun(w) == pc[w] \in Running

\* how often a descriptor has been released: closed by tf_close, or given to
\* the THttpSocket by a successful bind
Releases(w, fd) == closed[fd] + (IF fd \in hist[w].bound THEN 1 ELSE 0)

\* run() has left the worker without a descriptor: one it holds after run()
\* was given to it since, and is unreleased
NoDescriptorFromRun(w) ==
    pc[w] = "done" => socketDesc[w] = 0 \/ Releases(w, socketDesc[w]) = 0

\* C1: threadCount() is the number of workers whose run() has started and has
\* not returned, under every interleaving; so it is never negative, and it is
\* 0 when every started worker has returned.
WorkerCountInvariant ==
    /\ threadCounter = Cardinality({w \in Workers : InRun(w)})
    /\ threadCounter >= 0
    /\ (\A w \in Workers : hist[w].entered = hist[w].left) => threadCounter = 0

\* one worker has returned while another waits for its next request
WorkerCountWitness ==
    \E v, w \in Workers :
        /\ pc[v] = "done"
        /\ pc[w] = "keepalive"
        /\ threadCounter = 1

\* C2: whichever way run() ends, the cleanup block has run exactly once: one
\* decrement of the counter, one deleteLater() of the socket (none by the
\* destructor, _httpSocket being null), the database context cleared and
\* socketDesc 0 (until setSocketDescriptor gives the worker a new one).
CleanupExactlyOnce ==
    \A w \in Workers :
        /\ InRun(w) =>
              /\ hist[w].entered = 1
              /\ hist[w].left = 0
              /\ hist[w].cleanups = 0
              /\ hist[w].deletes = 0
        /\ (hist[w].entered = 1 /\ ~InRun(w)) =>
              /\ pc[w] \in {"done", "destroyed"}
              /\ hist[w].left = 1
              /\ hist[w].cleanups = 1
              /\ hist[w].deletes = 1
              /\ httpSocket[w] = "null"
              /\ ctx[w] = 0
              /\ NoDescriptorFromRun(w)

\* a worker that has run and has been destroyed
CleanupWitness ==
    \E w \in Workers :
        /\ pc[w] = "destroyed"
        /\ hist[w].entered = 1
        /\ hist[w].deletes = 1

\* C3: with a keep-alive timeout of 0 a worker never waits for a next request:
\* after the first dispatched batch it goes to receive_end and it never reads
\* a second batch.
NoKeepAliveWhenZero ==
    keepAliveTimeout = 0 =>
        \A w \in Workers :
            /\ pc[w] # "keepalive"
            /\ did[w].reads <= 1
            /\ decision[w].reason \in {"none", "no_keepalive"}
            /\ decision[w].reason = "no_keepalive" => pc[w] \in Closing

\* a batch was dispatched without a fault, the peer has more to send, and the
\* worker is closing
NoKeepAliveWitness ==
    \E w \in Workers :
        /\ keepAliveTimeout = 0
        /\ decision[w].reason = "no_keepalive"
        /\ Len(dispatched[w]) = Len(reqs[w])
        /\ Len(reqs[w]) = MaxBatch
        /\ toSend > 0
        /\ pc[w] = "socket_error"
        /\ did[w].closes = 1

\* C4: a worker that finds threadCount() >= _maxThreads > 0 after a batch goes
\* to receive_end and not into the keep-alive wait, whatever the timeout; so
\* with _maxThreads = 1 no worker ever waits for a next request; and with
\* _maxThreads <= 0 this test never ends a connection.
MaxThreadsEnforced ==
    \A w \in Workers :
        /\ (/\ decision[w].reason # "none"
            /\ maxThreads[w] > 0
            /\ decision[w].count >= maxThreads[w]) =>
              /\ decision[w].reason \in {"max_threads", "no_keepalive"}
              /\ pc[w] \in Closing
        /\ maxThreads[w] = 1 => pc[w] # "keepalive"
        /\ decision[w].reason = "max_threads" =>
              /\ maxThreads[w] > 0
              /\ decision[w].count >= maxThreads[w]
        /\ (decision[w].reason # "none" /\ maxThreads[w] <= 0 /\ keepAliveTimeout > 0) =>
              decision[w].reason = "keepalive"

\* the second of two live workers finishes a batch with _maxThreads = 2 and a
\* positive timeout, and closes
MaxThreadsWitness ==
    \E w \in Workers :
        /\ keepAliveTimeout > 0
        /\ maxThreads[w] = 2
        /\ decision[w] = [reason |-> "max_threads", count |-> 2]
        /\ pc[w] = "receive_end"

\* C5: the units of a batch are given to execute() in batch order, each at
\* most once, and once execute() has thrown no later unit of the batch is
\* dispatched.
DispatchedPrefix(w) ==
    /\ Len(dispatched[w]) <= Len(reqs[w])
    /\ \A i \in 1..Len(dispatched[w]) : dispatched[w][i] = reqs[w][i].id

DispatchInOrder ==
    \A w \in Workers :
        /\ DispatchedPrefix(w)
        /\ pc[w] = "dispatch" => Len(dispatched[w]) = idx[w] - 1
        /\ exc[w].kind # "none" =>
              /\ Len(dispatched[w]) = idx[w]
              /\ pc[w] \in {"caught"} \cup Closing

\* the first of several units has thrown, and the worker is past the handler
DispatchInOrderWitness ==
    \E w \in Workers :
        /\ exc[w].kind = "std"
        /\ Len(reqs[w]) = MaxBatch
        /\ dispatched[w] = << 1 >>
        /\ pc[w] = "socket_error"

\* what the claims about upgrades say of a header, case-insensitively
AsksUpgrade(h) == h.connection \in {B_Upgrade, B_upgrade, B_ka_Upgrade}
AsksWebSocket(h) == AsksUpgrade(h) /\ h.upgrade \in {B_websocket, B_WebSocket}
FirstHeader(w) == reqs[w][1].header
HasBatch(w) == reqs[w] # << >>

FaultResponse ==
    \A w \in Workers :
        /\ pc[w] = "caught" => exc[w].kind # "none" /\ did[w].faultWrites = 0
        /\ exc[w].kind # "none" => pc[w] \in {"caught"} \cup Closing
        /\ did[w].faultWrites >= 1 =>
              /\ did[w].faultWrites = 1
              /\ lastWrite[w].by = "worker"
              /\ exc[w].kind = "client" => lastWrite[w].status = exc[w].status
              /\ exc[w].kind = "std" => lastWrite[w].status = 500
              /\ lastWrite[w].header \ { KeepAliveField } = {}
              /\ pc[w] \in Closing

\* a 404 client fault has been answered and the worker is at its cleanup
FaultResponseWitness ==
    \E w \in Workers :
        /\ exc[w] = [kind |-> "client", status |-> 404]
        /\ lastWrite[w].status = 404
        /\ lastWrite[w].by = "worker"
        /\ pc[w] = "socket_error"

\* C8: a batch whose first request asks for a websocket upgrade of a known
\* endpoint is not dispatched at all; after the handoff the worker does not
\* read from, write to, close or abort its socket, it does not close the
\* duplicated descriptor, and it ends through the cleanup block.
UpgradeHandoff ==
    \A w \in Workers :
        /\ (HasBatch(w) /\ AsksWebSocket(FirstHeader(w)) /\ FirstHeader(w).endpoint) =>
              /\ dispatched[w] = << >>
              /\ pc[w] \in {"inspect", "handshake", "socket_cleanup", "socket_error"}
              /\ pc[w] \in {"socket_cleanup", "socket_error"} => handed[w] # 0
        /\ handed[w] # 0 =>
              /\ handed[w] = DupFd(sock[w].fd)
              /\ closed[handed[w]] = 0
              /\ did[w].after = 0
              /\ did[w].closes = 0
              /\ did[w].aborts = 0
              /\ pc[w] \in {"socket_cleanup", "socket_error"}

\* a batch of several requests was handed over and the worker is at its cleanup
UpgradeHandoffWitness ==
    \E w \in Workers :
        /\ handed[w] # 0
        /\ Len(reqs[w]) = MaxBatch
        /\ FirstHeader(w).connection = B_ka_Upgrade
        /\ FirstHeader(w).upgrade = B_WebSocket
        /\ did[w].drains = 1
        /\ pc[w] = "socket_error"

\* C9 as stated: a websocket upgrade for which no endpoint is found is not
\* dispatched and ends with closeHttpSocket() and the drain of the events
\* before the cleanup block.
NoEndpointCleanClose ==
    \A w \in Workers :
        (/\ HasBatch(w)
         /\ AsksWebSocket(FirstHeader(w))
         /\ ~FirstHeader(w).endpoint
         /\ pc[w] = "socket_error") =>
            /\ dispatched[w] = << >>
            /\ did[w].closes = 1
            /\ did[w].drains = 1

\* C9, amended: a websocket upgrade for which no endpoint is found is not
\* dispatched and goes from the handshake straight to the cleanup block:
\* closeHttpSocket() is not called, the events are not drained, and nothing is
\* handed over.
NoEndpointStraightToCleanup ==
    \A w \in Workers :
        (HasBatch(w) /\ AsksWebSocket(FirstHeader(w)) /\ ~FirstHeader(w).endpoint) =>
            /\ dispatched[w] = << >>
            /\ pc[w] \in {"inspect", "handshake", "socket_error"}
            /\ did[w].closes = 0
            /\ did[w].drains = 0
            /\ did[w].aborts = 0
            /\ handed[w] = 0

\* the handshake has failed and the worker is at its cleanup
NoEndpointWitness ==
    \E w \in Workers :
        /\ HasBatch(w)
        /\ AsksWebSocket(FirstHeader(w))
        /\ ~FirstHeader(w).endpoint
        /\ pc[w] = "socket_error"
        /\ sock[w].state = "connected"

\* C10 as stated: an upgrade to something other than websocket is not
\* dispatched, and the socket is closed with closeHttpSocket() and the events
\* are drained before the worker ends.
UnknownUpgradeCloses ==
    \A w \in Workers :
        (/\ HasBatch(w)
         /\ AsksUpgrade(FirstHeader(w))
         /\ ~AsksWebSocket(FirstHeader(w))
         /\ pc[w] = "socket_error") =>
            /\ dispatched[w] = << >>
            /\ did[w].closes = 1
            /\ did[w].drains = 1

\* C10, amended: an upgrade to something other than websocket is not
\* dispatched; the worker goes to socket_cleanup, where the events are drained
\* before the cleanup block, and closeHttpSocket() is not called.
UnknownUpgradeDrains ==
    \A w \in Workers :
        (HasBatch(w) /\ AsksUpgrade(FirstHeader(w)) /\ ~AsksWebSocket(FirstHeader(w))) =>
            /\ dispatched[w] = << >>
            /\ pc[w] \in {"inspect", "socket_cleanup", "socket_error"}
            /\ pc[w] = "socket_error" => did[w].drains = 1
            /\ did[w].closes = 0
            /\ did[w].aborts = 0
            /\ handed[w] = 0

\* an h2c upgrade has been passed over and the worker is at its cleanup
UnknownUpgradeWitness ==
    \E w \in Workers :
        /\ HasBatch(w)
        /\ FirstHeader(w).upgrade = B_h2c
        /\ AsksUpgrade(FirstHeader(w))
        /\ did[w].drains = 1
        /\ pc[w] = "socket_error"

\* C11: with a positive timeout, a worker in the keep-alive wait that has no
\* new data and whose idle time has reached the timeout, or whose socket is no
\* longer connected (whatever the error), has the goto receive_end as its one
\* next step; and from the closing labels a worker only goes on to the end of
\* run(): it reads and dispatches nothing more.
KeepAliveMustEnd(w) ==
    /\ pc[w] = "keepalive"
    /\ sock[w].avail = << >>
    /\ sock[w].idle >= keepAliveTimeout \/ sock[w].state # "connected"

KeepAliveTimeoutCloses ==
    /\ [](\A w \in Workers :
            (keepAliveTimeout > 0 /\ KeepAliveMustEnd(w)) =>
                /\ ENABLED KeepAliveEnd(w)
                /\ ~ENABLED KeepAliveReady(w))
    /\ [][\A w \in Workers :
            /\ (KeepAliveMustEnd(w) /\ pc'[w] # pc[w]) => pc'[w] = "receive_end"
            /\ pc[w] \in Closing =>
                  /\ pc'[w] \in Closing \cup {"done"}
                  /\ pc'[w] # "done" => did'[w].reads = did[w].reads
                  /\ dispatched'[w] = dispatched[w] \/ pc'[w] = "done"]_vars

\* the keep-alive wait has ended by the timeout on a connected socket, while
\* the peer had more to send
KeepAliveTimeoutWitness ==
    \E w \in Workers :
        /\ keepAliveTimeout > 0
        /\ decision[w].reason = "keepalive"
        /\ pc[w] = "receive_end"
        /\ sock[w].state = "connected"
        /\ sock[w].idle >= keepAliveTimeout
        /\ toSend > 0

\* what C12 says of a read that has been aborted: the socket is aborted, the
\* batch is empty, and the worker is closing without a dispatch
AbortedReadCloses(w) ==
    did[w].aborts >= 1 =>
        /\ did[w].aborts = 1
        /\ sock[w].state = "unconnected"
        /\ reqs[w] = << >>
        /\ dispatched[w] = << >>
        /\ pc[w] \in Closing

NothingToRead(w) == pc[w] = "read" /\ sock[w].avail = << >>

\* C12 as stated: whatever the timeout, a read with no complete request is
\* aborted when the idle time has reached the timeout or the socket is not
\* connected; the aborted read aborts the socket, returns an empty batch and
\* leads to the close without a dispatch.
ReadAbortsWhateverTimeout ==
    \A w \in Workers :
        /\ (/\ NothingToRead(w)
            /\ sock[w].idle >= keepAliveTimeout \/ sock[w].state # "connected") =>
              ENABLED ReadAbort(w)
        /\ AbortedReadCloses(w)

\* C12, amended: a read with no complete request is aborted exactly when the
\* timeout is positive and the idle time has reached it, or the socket is not
\* connected; with a timeout of 0 the idle time never aborts a read.  The
\* aborted read aborts the socket, returns an empty batch and leads to the
\* close without a dispatch.
ReadAbortsWhenPositive ==
    \A w \in Workers :
        /\ NothingToRead(w) =>
              /\ ENABLED ReadAbort(w) <=>
                    \/ keepAliveTimeout > 0 /\ sock[w].idle >= keepAliveTimeout
                    \/ sock[w].state # "connected"
              /\ ~ENABLED ReadBatch(w)
        /\ AbortedReadCloses(w)

\* with a timeout of 0 a read was aborted because the connection went down
ReadAbortWitness ==
    \E w \in Workers :
        /\ keepAliveTimeout = 0
        /\ did[w].aborts = 1
        /\ sock[w].err = "NetworkError"
        /\ pc[w] = "socket_cleanup"

\* C13: once resolved, keepAliveTimeout is max(setting, 0), so not negative,
\* and it keeps that value; constructors that overlap while it is unresolved
\* all read the same setting and leave the same value; and a constructor that
\* starts after the resolution does not read the setting.
Constructed(w) == pc[w] \notin {"none", "ctor"}

KeepAliveMemoized ==
    /\ [](/\ keepAliveTimeout \in {0 - 1, Max(configured, 0)}
          /\ \A w \in Workers :
                /\ pc[w] = "ctor" => timeout[w] = configured
                /\ Constructed(w) =>
                      /\ keepAliveTimeout >= 0
                      /\ keepAliveTimeout = Max(configured, 0))
    /\ [][keepAliveTimeout >= 0 =>
              /\ keepAliveTimeout' = keepAliveTimeout
              /\ configReads' = configReads]_vars

\* two constructors have both read a negative setting before either resolved
\* it, and both are through
KeepAliveMemoizedWitness ==
    /\ configured < 0
    /\ configReads >= 2
    /\ keepAliveTimeout = 0
    /\ \E v, w \in Workers : v # w /\ Constructed(v) /\ pc[w] = "read"

\* C14: once a response write of the dispatcher has returned a negative
\* result, the worker's next steps are those of the close and the cleanup: no
\* further unit of the batch is dispatched, the keep-alive wait is not entered
\* and nothing more is read.
WriteFailed(w) == lastWrite[w].by = "dispatcher" /\ lastWrite[w].result < 0

WriteFailureFatal ==
    [][\A w \in Workers :
          WriteFailed(w) =>
              /\ pc'[w] \in {pc[w], "done"} \cup Closing
              /\ pc'[w] # "done" =>
                    /\ dispatched'[w] = dispatched[w]
                    /\ did'[w].reads = did[w].reads]_vars

WaitForAllDoneContract ==
    /\ [](waiter.pc = "returned" =>
            /\ waiter.result <=> waiter.cnt = 0
            /\ waiter.first = 0 => waiter.result /\ waiter.sleeps = 0
            /\ ~waiter.result => waiter.cnt > 0 /\ waiter.elapsed > waiter.msec)
    /\ [][waiter' # waiter => threadCounter' = threadCounter]_vars

\* a call has returned false: it slept while a worker was running, and the
\* worker is still in run()
WaitForAllDoneWitness ==
    /\ waiter.pc = "returned"
    /\ ~waiter.result
    /\ waiter.msec = MaxMsec
    /\ waiter.sleeps >= 1
    /\ threadCounter > 0

\* C17: a failed bind is reported once and the raw descriptor is closed once;
\* the worker goes straight to the cleanup block: it reads, dispatches and
\* writes nothing, calls neither closeHttpSocket() nor the drain, never makes
\* itself the database context, and neither the cleanup block nor the
\* destructor closes the descriptor again.
BindFailureStraightToCleanup ==
    \A w \in Workers :
        hist[w].failed >= 1 =>
            /\ hist[w].failed = 1
            /\ pc[w] \in {"socket_error", "done", "destroyed"}
            /\ closed[hist[w].failedFd] = 1
            /\ ctx[w] = 0
            /\ sock[w].state \in {"none", "unconnected"}
            /\ pc[w] = "socket_error" => did[w] = [NoDid EXCEPT !.errors = 1]
            /\ reqs[w] = << >>
            /\ dispatched[w] = << >>
            /\ lastWrite[w] = NoWrite
            /\ handed[w] = 0
            /\ NoDescriptorFromRun(w)

\* the bind of a descriptor given by setSocketDescriptor has failed, run() has
\* returned and the worker has been destroyed
BindFailureWitness ==
    \E w \in Workers :
        /\ hist[w].failed = 1
        /\ hist[w].failedFd = SetFd(w)
        /\ closed[SetFd(w)] = 1
        /\ pc[w] = "destroyed"

\* C18: when every worker has the same bound M > 0, at most M - 1 workers are
\* in the keep-alive wait at any moment of any interleaving (the number of
\* workers in run() may well be above M: nothing tests it at the start).
InKeepAlive == { w \in Workers : pc[w] = "keepalive" }

KeepAliveAdmissionBound ==
    \A M \in 1..NumWorkers :
        (\A w \in Workers : pc[w] # "none" => maxThreads[w] = M) =>
            Cardinality(InKeepAlive) <= M - 1

\* with M = 2 one worker waits for its next request while a second one, which
\* found two workers in run(), closes its connection
KeepAliveAdmissionWitness ==
    \E v, w \in Workers :
        /\ maxThreads[v] = 2 /\ maxThreads[w] = 2
        /\ pc[v] = "keepalive"
        /\ decision[w].reason = "max_threads"
        /\ pc[w] = "socket_cleanup"
        /\ threadCounter = 2

\* C19: with a positive timeout and the scheduling above, every worker that
\* has entered run() returns from it, so the count of workers comes back to 0,
\* and a call of waitForAllDone whose msec is not exceeded returns true.
SelfTermination ==
    /\ \A w \in Workers : InRun(w) ~> (pc[w] = "done")
    /\ (threadCounter > 0) ~> (threadCounter = 0)
    /\ (waiter.pc = "load") ~> (waiter.pc = "returned" /\ waiter.result)

\* a worker has kept its connection alive, read a second batch and returned,
\* and a waitForAllDone that had to sleep has returned true
SelfTerminationWitness ==
    \E w \in Workers :
        /\ pc[w] = "done"
        /\ toSend = 0
        /\ threadCounter = 0
        /\ waiter.pc = "returned"
        /\ waiter.result
        /\ waiter.sleeps >= 1

\* C20: every positive descriptor given to a worker, by the constructor or by
\* setSocketDescriptor, is released at most once, either by tf_close or by a
\* successful bind, never by both and never by two tf_close; one not yet
\* released is the one the worker holds; and when the worker has been
\* destroyed every one of them has been released.
DescriptorReleasedOnce ==
    \A w \in Workers :
        /\ hist[w].bound \subseteq hist[w].given
        /\ socketDesc[w] > 0 => socketDesc[w] \in hist[w].given
        /\ \A fd \in hist[w].given :
              /\ Releases(w, fd) <= 1
              /\ Releases(w, fd) = 0 => socketDesc[w] = fd
              /\ pc[w] = "destroyed" => Releases(w, fd) = 1

\* a worker was given three descriptors: setSocketDescriptor closed the first,
\* the bind of the second failed, the third came after run() and the
\* destructor closed it
DescriptorReleasedWitness ==
    \E w \in Workers :
        /\ pc[w] = "destroyed"
        /\ Cardinality(hist[w].given) = 3
        /\ hist[w].failed = 1
        /\ hist[w].bound = {}
        /\ \A fd \in hist[w].given : closed[fd] = 1

====
